---- MODULE Spec2Model ----
(***************************************************************************)
(* Storage Valet edge functions (sv-edge): the booking lifecycle handlers  *)
(* (calendly-webhook, update-booking-items, booking-cancel,                *)
(* complete-service) and the payment webhook (stripe-webhook), modelled as *)
(* concurrent requests whose only shared state is the store.  Every store  *)
(* call of a handler (one PostgREST query, update, upsert or rpc) is one   *)
(* atomic step; a request keeps what it read in its own locals between     *)
(* steps, exactly as the handler keeps it in its `const`s across `await`s. *)
(*                                                                         *)
(* Abstractions: timestamps, payload blobs and the address snapshot are    *)
(* never read back by any handler and are left out; the append-only audit  *)
(* log (booking_events) is kept as the set of (action id, event type)       *)
(* pairs, and a log_booking_event rpc is folded into the step of the store *)
(* call next to it (no handler reads the log, so the rpc commutes with     *)
(* every other step).  The signature check of calendly-webhook works on    *)
(* the parsed parts of the header; an HMAC is the triple of the key, the   *)
(* timestamp and the body it is computed from, so that two signatures are  *)
(* equal exactly when they sign the same thing with the same key.          *)
(***************************************************************************)
EXTENDS Integers, FiniteSets, Sequences, TLC

\* ------------------------------------------------------------------ bounds
\* Requests started over a whole run of the booking specification.
MaxRequests == 4
\* Deliveries of payment events over a whole run of the payment specification.
MaxDeliveries == 3
\* Requests started over a run that begins with a booking already in the store.
MaxSeededRequests == 2
\* Requests to the scheduling webhook over a run of its own specification.
MaxWebhookRequests == 2
\* Requests started over a run in which one request follows the other.
MaxSequentialRequests == 6
\* Requests started over a run of the repository's handlers alone.
MaxHandlerRequests == 3

\* ------------------------------------------------------------ the universe
Procs == {"p1", "p2"}                 \* concurrently running requests
Users == {"U1", "U2"}                 \* auth users (customers)
Staff == {"S1"}                       \* members of sv.staff
Items == {"I1", "I2"}                 \* items(id)
Refs == {"r1", "r2"}                  \* payload.scheduled_event.uri values
NoUri == "-"                          \* payload without scheduled_event.uri
Emails == {"u1@", "u2@", "nobody@"}   \* payload.email values
NoUser == "-"

Statuses == {"pending_items", "pending_confirmation", "confirmed",
             "in_progress", "completed", "canceled"}
Terminal == {"completed", "canceled"}
ItemStatuses == {"home", "scheduled", "stored", "in_transit"}

\* items.user_id: both items belong to U1.
ItemOwner(i) == "U1"

\* auth.users by email (rpc get_user_id_by_email): nobody@ has no account.
AuthUserByEmail(e) == IF e = "u1@" THEN "U1" ELSE IF e = "u2@" THEN "U2" ELSE NoUser

VARIABLES
  actions,        \* table actions: sequence of rows, a row's id is its index
  itemStatus,     \* table items: items.status by id
  profiles,       \* table customer_profile: the users that have a row (with email)
  events,         \* table booking_events, as a set of <<action id or 0, event type>>
  completions,    \* history: per action id, times its status was changed to completed
  notifications,  \* history: per action id, completion emails triggered
  req,            \* the request each process is serving, with the handler's locals
  started,        \* requests started so far
  ledger,         \* billing.webhook_events: the recorded payment event ids
  applied,        \* history: per payment event id, completed runs of its handler
  subscription,   \* customer_profile.subscription_status as written by the payment handlers
  pay,            \* the payment-webhook delivery each process is serving
  delivered       \* payment deliveries started so far

vars == <<actions, itemStatus, profiles, events, completions, notifications,
          req, started, ledger, applied, subscription, pay, delivered>>

bookingVars == <<actions, itemStatus, profiles, events, completions,
                 notifications, req, started>>
payVars == <<ledger, applied, subscription, pay, delivered>>

ActionIds == 1..Len(actions)

NoAction == [id |-> 0, user_id |-> NoUser, service_type |-> "-", status |-> "-",
             pickup_item_ids |-> {}, delivery_item_ids |-> {}]

NoResp == [code |-> 0, body |-> "-"]

\* What a request to the scheduling webhook arrived with: none for the other
\* endpoints.
NoWebhook == [hdr |-> [form |-> "-", t |-> [k |-> "nan", v |-> 0], v1 |-> <<>>],
              key |-> FALSE, nowMs |-> 0]

Idle == [kind |-> "none", pc |-> "idle", caller |-> NoUser, arg |-> 0,
         uri |-> NoUri, email |-> "-", userId |-> NoUser, action |-> NoAction,
         selected |-> {}, pickupItemIds |-> {}, deliveryItemIds |-> {},
         updateError |-> FALSE, retry |-> FALSE, wh |-> NoWebhook, resp |-> NoResp]

\* A request that has returned its Response: the locals are gone, what the
\* caller sent and what it got back remain, and whether an item update of the
\* request returned an error (which the handler logs), and whether the request
\* repeated one that had been answered 500.
Returned(r, code, body) ==
  [Idle EXCEPT !.kind = r.kind, !.pc = "done", !.caller = r.caller, !.arg = r.arg,
               !.uri = r.uri, !.email = r.email, !.wh = r.wh, !.selected = r.selected,
               !.updateError = r.updateError, !.retry = r.retry,
               !.resp = [code |-> code, body |-> body]]

\* A process takes a new request when it is serving none.
CanStart(p) == req[p].pc \in {"idle", "done"} /\ started < MaxRequests

\* The booking ids a caller may name: every existing id and one that does not exist.
BookingIds == 1..(Len(actions) + 1)

\* The scheduled_event.uri of a webhook payload, or none.
Uris == Refs \cup {NoUri}

\* SELECT ... FROM actions WHERE id = $1 (.single()): the row with its id, or NoAction.
FetchAction(id) ==
  IF id \in ActionIds
    THEN [id |-> id, user_id |-> actions[id].user_id,
          service_type |-> actions[id].service_type, status |-> actions[id].status,
          pickup_item_ids |-> actions[id].pickup_item_ids,
          delivery_item_ids |-> actions[id].delivery_item_ids]
    ELSE NoAction

\* UPDATE items SET status = $1 WHERE id IN ids
SetItems(st, ids, s) == [i \in Items |-> IF i \in ids THEN s ELSE st[i]]

LogEvent(id, type) == events' = events \cup {<<id, type>>}

\* ============================================================ calendly-webhook
\* A plausible slip: the lookup is not filtered on the uri.
ActionsAny(uri) == ActionIds

\* Rows of actions carrying a given calendly_event_uri.
ActionsByUri(uri) == {id \in ActionIds : actions[id].calendly_event_uri = uri}

\* A plausible slip: the scheduling event books the visit as confirmed.
NewActionConfirmed(userId, uri) ==
  [user_id |-> userId, service_type |-> "pickup", calendly_event_uri |-> uri,
   status |-> "confirmed", pickup_item_ids |-> {}, delivery_item_ids |-> {}]

NewAction(userId, uri) ==
  [user_id |-> userId, service_type |-> "pickup", calendly_event_uri |-> uri,
   status |-> "pending_items", pickup_item_ids |-> {}, delivery_item_ids |-> {}]

\* A plausible slip: a plain insert instead of the upsert on calendly_event_uri.
InsertAction(acts, userId, uri) == Append(acts, NewAction(userId, uri))

\* INSERT ... ON CONFLICT (calendly_event_uri) DO UPDATE: the row that carries
\* the uri gets the columns the handler sends (user_id, service_type, status);
\* its item arrays are not among them and stay.  Without such a row, a new one.
UpsertAction(acts, userId, uri) ==
  IF \E id \in DOMAIN acts : acts[id].calendly_event_uri = uri
    THEN [id \in DOMAIN acts |->
            IF acts[id].calendly_event_uri = uri
              THEN [acts[id] EXCEPT !.user_id = userId, !.service_type = "pickup",
                                    !.status = "pending_items"]
              ELSE acts[id]]
    ELSE Append(acts, NewAction(userId, uri))

\* The id the upsert returns (.select('id').single()).
UpsertedId(acts, uri) == CHOOSE id \in DOMAIN acts : acts[id].calendly_event_uri = uri

\* Pad a per-action history counter when a row has been inserted.
Grown(h, acts) == IF Len(acts) > Len(h) THEN h \o [k \in 1..(Len(acts) - Len(h)) |-> 0] ELSE h

\* handleInviteeCreated up to the action upsert: required fields, profile lookup
\* by email, auth lookup and the auto-provisioned minimal profile.
handleInviteeCreated_lookup(p, r0) ==
  /\ \E e \in Emails, u \in Uris :
      LET r == [r0 EXCEPT !.kind = "created", !.email = e, !.uri = u]
          authUserId == AuthUserByEmail(e)
      IN
     IF r.uri = NoUri
       THEN /\ LogEvent(0, "calendly_webhook_error")
            /\ req' = [req EXCEPT ![p] = Returned(r, 200, "ok")]
            /\ UNCHANGED profiles
       ELSE IF authUserId \in profiles
         THEN /\ LogEvent(0, "calendly_profile_found")
              /\ req' = [req EXCEPT ![p] = [r EXCEPT !.pc = "upsert", !.userId = authUserId]]
              /\ UNCHANGED profiles
         ELSE IF authUserId # NoUser
           THEN /\ \E upsertOk \in BOOLEAN :
                     IF upsertOk
                       THEN /\ profiles' = profiles \cup {authUserId}
                            /\ LogEvent(0, "calendly_profile_created")
                       ELSE /\ UNCHANGED profiles
                            /\ LogEvent(0, "calendly_profile_create_failed")
                /\ req' = [req EXCEPT ![p] = [r EXCEPT !.pc = "upsert", !.userId = authUserId]]
           ELSE /\ LogEvent(0, "calendly_orphan_booking")
                /\ req' = [req EXCEPT ![p] = Returned(r, 200, "ok")]
                /\ UNCHANGED profiles
  /\ UNCHANGED <<actions, itemStatus, completions, notifications>>
  /\ UNCHANGED payVars

\* A verified invitee.created delivery arrives and runs up to the action upsert.
handleInviteeCreated_resolve(p) ==
  /\ CanStart(p)
  /\ started' = started + 1
  /\ handleInviteeCreated_lookup(p, Idle)

\* handleInviteeCreated: the upsert of the action, then the audit event.
handleInviteeCreated_upsert(p) ==
  LET r == req[p] IN
  /\ r.kind = "created" /\ r.pc = "upsert"
  /\ \E ok \in BOOLEAN :
       IF ok
         THEN LET acts == UpsertAction(actions, r.userId, r.uri) IN
              /\ actions' = acts
              /\ completions' = Grown(completions, acts)
              /\ notifications' = Grown(notifications, acts)
              /\ LogEvent(UpsertedId(acts, r.uri), "calendly_booking_created")
              /\ req' = [req EXCEPT ![p] = Returned(r, 200, "ok")]
         ELSE /\ req' = [req EXCEPT ![p] = Returned(r, 500, "error")]
              /\ UNCHANGED <<actions, completions, notifications, events>>
  /\ UNCHANGED <<itemStatus, profiles, started>>
  /\ UNCHANGED payVars

\* handleInviteeCanceled: find the action by calendly_event_uri (.single()).
handleInviteeCanceled_lookup(p, r0) ==
  /\ \E u \in Uris :
      LET r == [r0 EXCEPT !.kind = "canceled", !.uri = u]
          found == ActionsByUri(u)
      IN
     IF r.uri = NoUri
       THEN /\ req' = [req EXCEPT ![p] = Returned(r, 200, "ok")]
            /\ UNCHANGED events
       ELSE IF Cardinality(found) # 1
         THEN /\ LogEvent(0, "calendly_orphan_cancellation")
              /\ req' = [req EXCEPT ![p] = Returned(r, 200, "ok")]
         ELSE /\ req' = [req EXCEPT ![p] = [r EXCEPT !.pc = "update",
                                    !.action = FetchAction(CHOOSE id \in found : TRUE)]]
              /\ UNCHANGED events
  /\ UNCHANGED <<actions, itemStatus, profiles, completions, notifications>>
  /\ UNCHANGED payVars

\* A verified invitee.canceled delivery arrives and looks its action up.
handleInviteeCanceled_find(p) ==
  /\ CanStart(p)
  /\ started' = started + 1
  /\ handleInviteeCanceled_lookup(p, Idle)

\* A plausible slip: the provider's cancellation gives the booking's items
\* back as the customer's cancellation does.
handleInviteeCanceled_updateReverts(p) ==
  LET r == req[p] IN
  /\ r.kind = "canceled" /\ r.pc = "update"
  /\ \E ok \in BOOLEAN :
       IF ok
         THEN /\ actions' = [actions EXCEPT ![r.action.id].status = "canceled"]
              /\ itemStatus' = SetItems(SetItems(itemStatus, r.action.pickup_item_ids, "home"),
                                        r.action.delivery_item_ids, "stored")
              /\ LogEvent(r.action.id, "calendly_booking_canceled")
              /\ req' = [req EXCEPT ![p] = Returned(r, 200, "ok")]
         ELSE /\ req' = [req EXCEPT ![p] = Returned(r, 500, "error")]
              /\ UNCHANGED <<actions, events, itemStatus>>
  /\ UNCHANGED <<profiles, completions, notifications, started>>
  /\ UNCHANGED payVars

\* A plausible slip: the provider's cancellation goes through the transition
\* table, and a booking that may not be canceled is left as it is.
handleInviteeCanceled_updateChecked(p) ==
  LET r == req[p] IN
  /\ r.kind = "canceled" /\ r.pc = "update"
  /\ IF r.action.status \in {"pending_items", "pending_confirmation", "confirmed", "in_progress"}
       THEN /\ actions' = [actions EXCEPT ![r.action.id].status = "canceled"]
            /\ LogEvent(r.action.id, "calendly_booking_canceled")
       ELSE UNCHANGED <<actions, events>>
  /\ req' = [req EXCEPT ![p] = Returned(r, 200, "ok")]
  /\ UNCHANGED <<itemStatus, profiles, completions, notifications, started>>
  /\ UNCHANGED payVars

\* handleInviteeCanceled: UPDATE actions SET status = 'canceled' WHERE id = action.id
handleInviteeCanceled_update(p) ==
  LET r == req[p] IN
  /\ r.kind = "canceled" /\ r.pc = "update"
  /\ \E ok \in BOOLEAN :
       IF ok
         THEN /\ actions' = [actions EXCEPT ![r.action.id].status = "canceled"]
              /\ LogEvent(r.action.id, "calendly_booking_canceled")
              /\ req' = [req EXCEPT ![p] = Returned(r, 200, "ok")]
         ELSE /\ req' = [req EXCEPT ![p] = Returned(r, 500, "error")]
              /\ UNCHANGED <<actions, events>>
  /\ UNCHANGED <<itemStatus, profiles, completions, notifications, started>>
  /\ UNCHANGED payVars

\* ------------------------------------------------- calendly-webhook: verification
MAX_CLOCK_SKEW_SECONDS == 300

\* The t of a signature header after Number(t): a number, NaN (not numeric) or
\* Infinity.
Num(n) == [k |-> "num", v |-> n]
NaN == [k |-> "nan", v |-> 0]
Infinity == [k |-> "inf", v |-> 0]

\* Date.now() in milliseconds: the same second, at its start and at its end.
Nows == {1000000, 1000999}

\* Header timestamps around the second 1000: 10 minutes and 2 minutes old, the
\* two edges of the skew bound on both sides, zero, negative and non-numbers.
Timestamps ==
  {Num(n) : n \in {-5, 0, 400, 699, 700, 880, 1000, 1300, 1301, 1600}} \cup {NaN, Infinity}

SigningKey == "k"
Body == "body"

\* HMAC-SHA256 of `${t}.${rawBody}` under a key, in hex: equal only for equal
\* key, timestamp and body.
computeHmacSha256Hex(key, t, body) == <<key, t, body>>

\* The v1 values a sender may present for a timestamp: the right signature, one
\* made with another key, one made for another timestamp.
Signatures(t) ==
  {computeHmacSha256Hex(SigningKey, t, Body), computeHmacSha256Hex("k_other", t, Body),
   computeHmacSha256Hex(SigningKey, Num(999), Body)}

\* The Calendly-Webhook-Signature header: missing, without t or v1, or "t=..,v1=..".
Headers ==
  {[form |-> f, t |-> NaN, v1 |-> <<>>] : f \in {"missing", "malformed"}}
    \cup UNION {{[form |-> "ok", t |-> t, v1 |-> v1] : v1 \in Signatures(t)} : t \in Timestamps}

Abs(n) == IF n < 0 THEN -n ELSE n

\* A plausible slip: the age is compared without Math.abs.
isFreshNoAbs(t, nowMs) ==
  t.k = "num" /\ t.v > 0 /\ (nowMs \div 1000) - t.v <= MAX_CLOCK_SKEW_SECONDS

isFreshTimestampSeconds(t, nowMs) ==
  IF t.k # "num" \/ t.v <= 0 THEN FALSE
  ELSE LET now == nowMs \div 1000 IN Abs(now - t.v) <= MAX_CLOCK_SKEW_SECONDS

SigOk == [ok |-> TRUE, status |-> 200, reason |-> "-"]
SigFail(status, reason) == [ok |-> FALSE, status |-> status, reason |-> reason]

\* A plausible slip (the v1.0 handler): verification is skipped.
verifySkipped(w) == SigOk

\* verifyCalendlySignature for a request w = (header, signing key configured, clock).
verifyCalendlySignature(w) ==
  IF w.hdr.form = "missing" THEN SigFail(401, "missing_signature_header")
  ELSE IF ~w.key THEN SigFail(500, "missing_signing_key_env")
  ELSE IF w.hdr.form # "ok" THEN SigFail(401, "invalid_signature_header_format")
  ELSE IF ~isFreshTimestampSeconds(w.hdr.t, w.nowMs)
    THEN SigFail(401, "stale_signature_timestamp")
  ELSE IF computeHmacSha256Hex(SigningKey, w.hdr.t, Body) # w.hdr.v1
    THEN SigFail(401, "signature_mismatch")
  ELSE SigOk

\* serve of calendly-webhook: verify before any side effect, parse the body,
\* route by event type.  Whether the signing key is configured is a property of
\* the deployment; it is drawn with each request.
CalendlyWebhook_serve(p) ==
  /\ CanStart(p)
  /\ started' = started + 1
  /\ \E hdr \in Headers, key \in BOOLEAN, nowMs \in Nows, json \in BOOLEAN,
        eventType \in {"invitee.created", "invitee.canceled", "other"} :
       LET w == [hdr |-> hdr, key |-> key, nowMs |-> nowMs]
           sig == verifyCalendlySignature(w)
           r0 == [Idle EXCEPT !.kind = "webhook", !.wh = w]
       IN
       IF ~sig.ok \/ ~json \/ eventType = "other"
         THEN /\ req' = [req EXCEPT ![p] =
                   IF ~sig.ok THEN Returned(r0, sig.status, sig.reason)
                   ELSE IF ~json THEN Returned(r0, 400, "Invalid JSON")
                   ELSE Returned(r0, 200, "ok")]
              /\ UNCHANGED <<actions, itemStatus, profiles, events, completions, notifications>>
              /\ UNCHANGED payVars
         ELSE IF eventType = "invitee.created"
           THEN handleInviteeCreated_lookup(p, r0)
           ELSE handleInviteeCanceled_lookup(p, r0)

\* ======================================================== update-booking-items
\* VALID_TRANSITIONS of update-booking-items v1.1.
VALID_TRANSITIONS(from) ==
  CASE from = "pending_items" -> {"pending_confirmation", "canceled"}
    [] from = "pending_confirmation" -> {"confirmed", "canceled"}
    [] from = "confirmed" -> {"in_progress", "canceled"}
    [] from = "in_progress" -> {"completed", "canceled"}
    [] OTHER -> {}

isValidTransition(from, to) == to \in VALID_TRANSITIONS(from)

\* The partition loop of v1.0, which looked at home and stored items only.
PartitionPickupUnscheduled(sel, st, prevPickup, prevDelivery) ==
  {i \in sel : st[i] = "home"}

\* The partition loop: the new pickup set from the fetched statuses `st` of the
\* selected items and the booking's previous arrays.
PartitionPickup(sel, st, prevPickup, prevDelivery) ==
  {i \in sel : \/ st[i] = "home"
               \/ st[i] = "scheduled" /\ i \in prevPickup}

\* A plausible slip: every scheduled item goes to the delivery set.
PartitionDeliveryScheduled(sel, st, prevPickup, prevDelivery) ==
  {i \in sel : st[i] = "stored" \/ st[i] = "scheduled"}

\* The partition loop: the new delivery set.
PartitionDelivery(sel, st, prevPickup, prevDelivery) ==
  {i \in sel : \/ st[i] = "stored"
               \/ st[i] = "scheduled" /\ i \notin prevPickup /\ i \in prevDelivery}

addedIds(r) ==
  (r.pickupItemIds \ r.action.pickup_item_ids)
    \cup (r.deliveryItemIds \ r.action.delivery_item_ids)
removedPickupIds(r) == r.action.pickup_item_ids \ r.pickupItemIds
removedDeliveryIds(r) == r.action.delivery_item_ids \ r.deliveryItemIds

\* The item-status store calls of a select request still to run, in handler
\* order: a call is made only for a non-empty id list.
SelectSteps(r) ==
  (IF addedIds(r) # {} THEN <<"added">> ELSE <<>>)
    \o (IF removedPickupIds(r) # {} THEN <<"removedPickup">> ELSE <<>>)
    \o (IF removedDeliveryIds(r) # {} THEN <<"removedDelivery">> ELSE <<>>)

RECURSIVE After(_, _)
\* What follows step `pc` in the list `steps` ("end" after the last one).
After(steps, pc) ==
  IF steps = <<>> THEN "end"
  ELSE IF Head(steps) = pc
    THEN (IF Len(steps) > 1 THEN steps[2] ELSE "end")
    ELSE After(Tail(steps), pc)

First(steps) == IF steps = <<>> THEN "end" ELSE Head(steps)

\* A plausible slip: the state check lets every status through.
SelectableAny == Statuses

\* The statuses in which the items of a booking may be selected.
SelectableStatuses == {"pending_items", "pending_confirmation"}

\* Fetch the action, ownership check, state check.
UpdateBookingItems_load(p) ==
  /\ CanStart(p)
  /\ started' = started + 1
  /\ \E c \in Users, id \in BookingIds, sel \in SUBSET Items :
      LET r == [Idle EXCEPT !.kind = "select", !.caller = c, !.arg = id, !.selected = sel]
          action == FetchAction(id)
      IN
      req' = [req EXCEPT ![p] =
       IF action = NoAction THEN Returned(r, 404, "Action not found")
       ELSE IF action.user_id # r.caller
         THEN Returned(r, 403, "Forbidden: Action does not belong to user")
       ELSE IF action.status \notin SelectableStatuses
         THEN Returned(r, 400, "Cannot modify items")
       ELSE [r EXCEPT !.pc = "fetch", !.action = action]]
  /\ UNCHANGED <<actions, itemStatus, profiles, events, completions, notifications>>
  /\ UNCHANGED payVars

\* Fetch the selected items' statuses, partition them, validate the transition.
UpdateBookingItems_fetch(p) ==
  LET r == req[p]
      newStatus == "pending_confirmation"
  IN
  /\ r.kind = "select" /\ r.pc = "fetch"
  /\ \E ok \in BOOLEAN :
       req' = [req EXCEPT ![p] =
         IF ~ok THEN Returned(r, 500, "Failed to fetch items")
         ELSE IF r.action.status # newStatus /\ ~isValidTransition(r.action.status, newStatus)
           THEN Returned(r, 400, "Invalid status transition")
         ELSE [r EXCEPT !.pc = "update",
                        !.pickupItemIds =
                           PartitionPickup(r.selected, itemStatus,
                                           r.action.pickup_item_ids, r.action.delivery_item_ids),
                        !.deliveryItemIds =
                           PartitionDelivery(r.selected, itemStatus,
                                             r.action.pickup_item_ids, r.action.delivery_item_ids)]]
  /\ UNCHANGED <<actions, itemStatus, profiles, events, completions, notifications, started>>
  /\ UNCHANGED payVars

\* The last step of a select request: the items_updated audit event and the 200.
SelectReturn(p, r) ==
  /\ LogEvent(r.action.id, "items_updated")
  /\ req' = [req EXCEPT ![p] = Returned(r, 200, "ok")]

\* UPDATE actions SET pickup_item_ids, delivery_item_ids, status WHERE id = action_id
UpdateBookingItems_update(p) ==
  LET r == req[p] IN
  /\ r.kind = "select" /\ r.pc = "update"
  /\ \E ok \in BOOLEAN :
       IF ok
         THEN /\ actions' = [actions EXCEPT ![r.action.id].pickup_item_ids = r.pickupItemIds,
                                            ![r.action.id].delivery_item_ids = r.deliveryItemIds,
                                            ![r.action.id].status = "pending_confirmation"]
              /\ IF First(SelectSteps(r)) = "end"
                   THEN SelectReturn(p, r)
                   ELSE /\ req' = [req EXCEPT ![p].pc = First(SelectSteps(r))]
                        /\ UNCHANGED events
         ELSE /\ req' = [req EXCEPT ![p] = Returned(r, 500, "Failed to update booking")]
              /\ UNCHANGED <<actions, events>>
  /\ UNCHANGED <<itemStatus, profiles, completions, notifications, started>>
  /\ UNCHANGED payVars

\* One of the three item-status updates (an error is logged, the handler goes on).
SelectItemUpdate(p, pc, ids, status) ==
  LET r == req[p] IN
  /\ r.kind = "select" /\ r.pc = pc
  /\ \E ok \in BOOLEAN :
       LET r1 == [r EXCEPT !.updateError = r.updateError \/ ~ok] IN
       /\ itemStatus' = IF ok THEN SetItems(itemStatus, ids, status) ELSE itemStatus
       /\ IF After(SelectSteps(r), pc) = "end"
            THEN SelectReturn(p, r1)
            ELSE /\ req' = [req EXCEPT ![p] = [r1 EXCEPT !.pc = After(SelectSteps(r), pc)]]
                 /\ UNCHANGED events
  /\ UNCHANGED <<actions, profiles, completions, notifications, started>>
  /\ UNCHANGED payVars

\* UPDATE items SET status = 'scheduled' WHERE id IN addedIds
UpdateBookingItems_added(p) == SelectItemUpdate(p, "added", addedIds(req[p]), "scheduled")

\* A plausible slip: the removed pickup items are given the status of removed
\* delivery items.
UpdateBookingItems_removedPickupStored(p) ==
  SelectItemUpdate(p, "removedPickup", removedPickupIds(req[p]), "stored")

\* UPDATE items SET status = 'home' WHERE id IN removedPickupIds
UpdateBookingItems_removedPickup(p) ==
  SelectItemUpdate(p, "removedPickup", removedPickupIds(req[p]), "home")

\* UPDATE items SET status = 'stored' WHERE id IN removedDeliveryIds
UpdateBookingItems_removedDelivery(p) ==
  SelectItemUpdate(p, "removedDelivery", removedDeliveryIds(req[p]), "stored")

\* =============================================================== booking-cancel
\* A plausible slip: the cancelable states are not restricted to the pending ones.
CancelableAlways == Statuses

CUSTOMER_CANCELABLE_STATES == {"pending_items", "pending_confirmation"}

\* The store calls of a cancel request after the load, in handler order.
CancelSteps(action) ==
  (IF action.pickup_item_ids # {} THEN <<"revertPickup">> ELSE <<>>)
    \o (IF action.delivery_item_ids # {} THEN <<"revertDelivery">> ELSE <<>>)
    \o <<"update">>

\* A plausible slip: the early return for a canceled booking is left out.
AlreadyCanceledNever(booking) == FALSE

\* if (booking.status === 'canceled'): the idempotent early return applies.
AlreadyCanceled(booking) == booking.status = "canceled"

\* Fetch the booking, ownership check, idempotent early return, state check.
BookingCancel_load(p) ==
  /\ CanStart(p)
  /\ started' = started + 1
  /\ \E c \in Users, id \in BookingIds :
      LET r == [Idle EXCEPT !.kind = "cancel", !.caller = c, !.arg = id]
          booking == FetchAction(id)
      IN
      req' = [req EXCEPT ![p] =
       IF booking = NoAction THEN Returned(r, 404, "Booking not found")
       ELSE IF booking.user_id # r.caller THEN Returned(r, 404, "Booking not found")
       ELSE IF AlreadyCanceled(booking) THEN Returned(r, 200, "canceled")
       ELSE IF booking.status \notin CUSTOMER_CANCELABLE_STATES
         THEN Returned(r, 409, "Cannot cancel booking")
       ELSE [r EXCEPT !.pc = First(CancelSteps(booking)), !.action = booking]]
  /\ UNCHANGED <<actions, itemStatus, profiles, events, completions, notifications>>
  /\ UNCHANGED payVars

\* UPDATE items SET status = $1 WHERE id IN ids AND user_id = userId
\* (an error is logged, the handler goes on).
CancelRevert(p, pc, ids, status) ==
  LET r == req[p] IN
  /\ r.kind = "cancel" /\ r.pc = pc
  /\ \E ok \in BOOLEAN :
       itemStatus' =
         IF ok THEN SetItems(itemStatus, {i \in ids : ItemOwner(i) = r.caller}, status)
               ELSE itemStatus
  /\ req' = [req EXCEPT ![p].pc = After(CancelSteps(r.action), pc)]
  /\ UNCHANGED <<actions, profiles, events, completions, notifications, started>>
  /\ UNCHANGED payVars

\* Revert the pickup items to 'home'.
BookingCancel_revertPickup(p) ==
  CancelRevert(p, "revertPickup", req[p].action.pickup_item_ids, "home")

\* Revert the delivery items to 'stored'.
BookingCancel_revertDelivery(p) ==
  CancelRevert(p, "revertDelivery", req[p].action.delivery_item_ids, "stored")

\* UPDATE actions SET status = 'canceled' WHERE id = booking_id AND user_id = userId
CancelStatusWrite(acts, id, userId) ==
  IF acts[id].user_id = userId THEN [acts EXCEPT ![id].status = "canceled"] ELSE acts

\* The status update, then the audit event and the 200.
BookingCancel_update(p) ==
  LET r == req[p] IN
  /\ r.kind = "cancel" /\ r.pc = "update"
  /\ \E ok \in BOOLEAN :
       IF ok
         THEN /\ actions' = CancelStatusWrite(actions, r.action.id, r.caller)
              /\ LogEvent(r.action.id, "portal_booking_canceled")
              /\ req' = [req EXCEPT ![p] = Returned(r, 200, "canceled")]
         ELSE /\ req' = [req EXCEPT ![p] = Returned(r, 500, "Failed to cancel booking")]
              /\ UNCHANGED <<actions, events>>
  /\ UNCHANGED <<itemStatus, profiles, completions, notifications, started>>
  /\ UNCHANGED payVars

\* ============================================================= complete-service
\* A plausible slip: completion is attempted from every status.
CompletableAny == Statuses

completableStatuses == {"confirmed", "pending_confirmation"}

\* Who calls complete-service: a staff member, or a customer (not in sv.staff).
Callers == Staff \cup {"U1"}

\* The ids the completion moves: the booking's set of its own service_type.
CompleteItemIds(action) ==
  IF action.service_type = "pickup" THEN action.pickup_item_ids
  ELSE IF action.service_type = "delivery" THEN action.delivery_item_ids
  ELSE {}

\* The status the completion gives them.
CompleteItemStatus(action) == IF action.service_type = "pickup" THEN "stored" ELSE "home"

\* Staff check, fetch the action, completable-state check.
CompleteService_load(p) ==
  /\ CanStart(p)
  /\ started' = started + 1
  /\ \E c \in Callers, id \in BookingIds, staffOk \in BOOLEAN :
      LET r == [Idle EXCEPT !.kind = "complete", !.caller = c, !.arg = id]
          action == FetchAction(id)
      IN
      req' = [req EXCEPT ![p] =
         IF ~staffOk THEN Returned(r, 500, "Staff check failed")
         ELSE IF r.caller \notin Staff THEN Returned(r, 403, "Forbidden: staff only")
         ELSE IF action = NoAction THEN Returned(r, 404, "Action not found")
         ELSE IF action.status \notin completableStatuses
           THEN Returned(r, 400, "Cannot complete")
         ELSE [r EXCEPT !.pc = IF CompleteItemIds(action) # {} THEN "items" ELSE "complete",
                        !.action = action]]
  /\ UNCHANGED <<actions, itemStatus, profiles, events, completions, notifications>>
  /\ UNCHANGED payVars

\* The earlier revision of the handler: an error of the item update is only
\* logged, and the completion goes on.
CompleteService_itemsLogged(p) ==
  LET r == req[p] IN
  /\ r.kind = "complete" /\ r.pc = "items"
  /\ \E ok \in BOOLEAN :
       IF ok
         THEN /\ itemStatus' = SetItems(itemStatus, CompleteItemIds(r.action),
                                        CompleteItemStatus(r.action))
              /\ req' = [req EXCEPT ![p].pc = "complete"]
         ELSE /\ req' = [req EXCEPT ![p].pc = "complete", ![p].updateError = TRUE]
              /\ UNCHANGED itemStatus
  /\ UNCHANGED <<actions, profiles, events, completions, notifications, started>>
  /\ UNCHANGED payVars

\* UPDATE items SET status WHERE id IN (the set of the service type); an error
\* ends the request with 500 before the booking is touched.
CompleteService_items(p) ==
  LET r == req[p] IN
  /\ r.kind = "complete" /\ r.pc = "items"
  /\ \E ok \in BOOLEAN :
       IF ok
         THEN /\ itemStatus' = SetItems(itemStatus, CompleteItemIds(r.action),
                                        CompleteItemStatus(r.action))
              /\ req' = [req EXCEPT ![p].pc = "complete"]
         ELSE /\ req' = [req EXCEPT ![p] = Returned([r EXCEPT !.updateError = TRUE],
                                                    500, "Failed to update items")]
              /\ UNCHANGED itemStatus
  /\ UNCHANGED <<actions, profiles, events, completions, notifications, started>>
  /\ UNCHANGED payVars

\* The caller of a Complete request that was answered 500 sends the same
\* request again: staff check, fetch, completable-state check as on arrival.
CompleteService_retry(p) ==
  LET r0 == req[p] IN
  /\ r0.kind = "complete" /\ r0.pc = "done" /\ r0.resp.code = 500
  /\ \E staffOk \in BOOLEAN :
      LET r == [Idle EXCEPT !.kind = "complete", !.caller = r0.caller, !.arg = r0.arg,
                            !.retry = TRUE]
          action == FetchAction(r0.arg)
      IN
      req' = [req EXCEPT ![p] =
         IF ~staffOk THEN Returned(r, 500, "Staff check failed")
         ELSE IF r.caller \notin Staff THEN Returned(r, 403, "Forbidden: staff only")
         ELSE IF action = NoAction THEN Returned(r, 404, "Action not found")
         ELSE IF action.status \notin completableStatuses
           THEN Returned(r, 400, "Cannot complete")
         ELSE [r EXCEPT !.pc = IF CompleteItemIds(action) # {} THEN "items" ELSE "complete",
                        !.action = action]]
  /\ UNCHANGED <<actions, itemStatus, profiles, events, completions, notifications, started>>
  /\ UNCHANGED payVars

\* A plausible slip (the revision before v2.3): the update is keyed on the id alone.
CompleteAlways(acts, id) == TRUE

\* A plausible slip: the status list of the conditional update names
\* 'confirmed' alone.
CompleteMatchesConfirmed(acts, id) == acts[id].status = "confirmed"

\* UPDATE actions SET status = 'completed' WHERE id = action_id
\*   AND status IN ('confirmed', 'pending_confirmation'): does a row match?
CompleteMatches(acts, id) == acts[id].status \in {"confirmed", "pending_confirmation"}

\* The conditional completion; on a matched row the service_completed audit
\* event; on no row the idempotent 200 with already_completed.
CompleteService_complete(p) ==
  LET r == req[p]
      id == r.action.id
  IN
  /\ r.kind = "complete" /\ r.pc = "complete"
  /\ \E ok \in BOOLEAN :
       IF ~ok
         THEN /\ req' = [req EXCEPT ![p] = Returned(r, 500, "Failed to complete action")]
              /\ UNCHANGED <<actions, events, completions>>
       ELSE IF CompleteMatches(actions, id)
         THEN /\ actions' = [actions EXCEPT ![id].status = "completed"]
              /\ completions' = [completions EXCEPT ![id] = @ + 1]
              /\ LogEvent(id, "service_completed")
              /\ req' = [req EXCEPT ![p].pc = "email"]
         ELSE /\ req' = [req EXCEPT ![p] = Returned(r, 200, "already_completed")]
              /\ UNCHANGED <<actions, events, completions>>
  /\ UNCHANGED <<itemStatus, profiles, notifications, started>>
  /\ UNCHANGED payVars

\* Look up the owner's profile; with an email, trigger the completion email.
CompleteService_email(p) ==
  LET r == req[p] IN
  /\ r.kind = "complete" /\ r.pc = "email"
  /\ notifications' = IF r.action.user_id \in profiles
                        THEN [notifications EXCEPT ![r.action.id] = @ + 1]
                        ELSE notifications
  /\ req' = [req EXCEPT ![p] = Returned(r, 200, "ok")]
  /\ UNCHANGED <<actions, itemStatus, profiles, events, completions, started>>
  /\ UNCHANGED payVars

\* ------------------------------------------------------------- confirmation
\* No handler of the repository writes 'confirmed': operations confirm a booking
\* that awaits confirmation through the service role.
OpsConfirm(id) ==
  /\ id \in ActionIds
  /\ actions[id].status = "pending_confirmation"
  /\ isValidTransition(actions[id].status, "confirmed")
  /\ actions' = [actions EXCEPT ![id].status = "confirmed"]
  /\ UNCHANGED <<itemStatus, profiles, events, completions, notifications, req, started>>
  /\ UNCHANGED payVars

\* =============================================================== stripe-webhook
EventIds == {"evt_1", "evt_2"}

\* event.type of each event id, and the subscription_status its handler writes
\* (handleInvoicePaymentSucceeded, handleInvoicePaymentFailed).
EventType(e) == IF e = "evt_1" THEN "invoice.payment_succeeded" ELSE "invoice.payment_failed"
HandlerStatus(e) == IF EventType(e) = "invoice.payment_succeeded" THEN "active" ELSE "past_due"

\* A delivery: the handler's locals (checkError, insertError), the Response, and
\* two history flags: `seen`, the id was in the ledger when the delivery arrived,
\* and `ran`, the event's handler ran to its end in this delivery.
PayIdle == [pc |-> "idle", id |-> "-", checkError |-> FALSE, insertError |-> FALSE,
            seen |-> FALSE, ran |-> FALSE, resp |-> NoResp]

PayReturned(d, code, body) == [d EXCEPT !.pc = "done", !.resp = [code |-> code, body |-> body]]

\* A delivery of a (signature-verified) event arrives.
StartDelivery(p) ==
  /\ pay[p].pc \in {"idle", "done"}
  /\ delivered < MaxDeliveries
  /\ \E e \in EventIds : pay' = [pay EXCEPT ![p] = [PayIdle EXCEPT !.pc = "check", !.id = e,
                                                                !.seen = e \in ledger]]
  /\ delivered' = delivered + 1
  /\ UNCHANGED <<ledger, applied, subscription>>
  /\ UNCHANGED bookingVars

\* A plausible slip: the lookup's answer is ignored.
CheckNever(led, e) == FALSE

\* rpc check_stripe_webhook_event: is the event id in the ledger?
check_stripe_webhook_event(led, e) == e \in led

\* A plausible slip (the ordering of the v3.1 handler): the id is recorded by
\* the check itself, before the event's handler has run.
StripeWebhook_checkInsertFirst(p) ==
  LET d == pay[p] IN
  /\ d.pc = "check"
  /\ IF d.id \in ledger
       THEN /\ pay' = [pay EXCEPT ![p] = PayReturned(d, 200, "duplicate")]
            /\ UNCHANGED ledger
       ELSE /\ pay' = [pay EXCEPT ![p].pc = "process"]
            /\ ledger' = ledger \cup {d.id}
  /\ UNCHANGED <<applied, subscription, delivered>>
  /\ UNCHANGED bookingVars

\* The idempotency check: an error of the rpc is logged and processing goes on
\* (eventExists is then null); a recorded id answers 200 duplicate.
StripeWebhook_check(p) ==
  LET d == pay[p] IN
  /\ d.pc = "check"
  /\ \E checkError \in BOOLEAN :
       pay' = [pay EXCEPT ![p] =
         IF ~checkError /\ check_stripe_webhook_event(ledger, d.id)
           THEN PayReturned(d, 200, "duplicate")
           ELSE [d EXCEPT !.pc = "process", !.checkError = checkError]]
  /\ UNCHANGED <<ledger, applied, subscription, delivered>>
  /\ UNCHANGED bookingVars

\* The switch on event.type: the event's handler runs; a throw is caught by the
\* outer catch and answered 500, before anything is recorded.
StripeWebhook_process(p) ==
  LET d == pay[p] IN
  /\ d.pc = "process"
  /\ \E ok \in BOOLEAN :
       IF ok
         THEN /\ subscription' = HandlerStatus(d.id)
              /\ applied' = [applied EXCEPT ![d.id] = @ + 1]
              /\ pay' = [pay EXCEPT ![p].pc = "record", ![p].ran = TRUE]
         ELSE /\ pay' = [pay EXCEPT ![p] = PayReturned(d, 500, "error")]
              /\ UNCHANGED <<subscription, applied>>
  /\ UNCHANGED <<ledger, delivered>>
  /\ UNCHANGED bookingVars

\* A plausible slip: an error of the insert after the handler is thrown to the
\* outer catch and answered 500.
StripeWebhook_recordThrows(p) ==
  LET d == pay[p] IN
  /\ d.pc = "record"
  /\ \E insertError \in BOOLEAN :
       /\ insertError \/ d.id \notin ledger
       /\ ledger' = IF insertError THEN ledger ELSE ledger \cup {d.id}
       /\ pay' = [pay EXCEPT ![p] =
            IF insertError
              THEN PayReturned([d EXCEPT !.insertError = TRUE], 500, "error")
              ELSE PayReturned(d, 200, "ok")]
  /\ UNCHANGED <<applied, subscription, delivered>>
  /\ UNCHANGED bookingVars

\* rpc insert_stripe_webhook_event after the handler: an error (the unique
\* constraint on event_id among them) is logged, the answer is 200 all the same.
StripeWebhook_record(p) ==
  LET d == pay[p] IN
  /\ d.pc = "record"
  /\ \E insertError \in BOOLEAN :
       /\ insertError \/ d.id \notin ledger
       /\ ledger' = IF insertError THEN ledger ELSE ledger \cup {d.id}
       /\ pay' = [pay EXCEPT ![p] = PayReturned([d EXCEPT !.insertError = insertError], 200, "ok")]
  /\ UNCHANGED <<applied, subscription, delivered>>
  /\ UNCHANGED bookingVars

\* ------------------------------------------------ stripe-webhook v3.1 (insert-first)
\* A plausible slip: webhook_events(event_id) has no UNIQUE constraint.
UniqueNever(led, e) == FALSE

\* The UNIQUE constraint on billing.webhook_events(event_id): does an insert of
\* the id hit it (error code 23505)?
UniqueViolation(led, e) == e \in led

\* v3.1: INSERT the event id first. A unique violation answers 200 with
\* duplicate: true; any other insert error is thrown to the outer catch (500).
StripeWebhookV31_insert(p) ==
  LET d == pay[p] IN
  /\ d.pc = "check"
  /\ \E otherError \in BOOLEAN :
       IF otherError
         THEN /\ pay' = [pay EXCEPT ![p] = PayReturned([d EXCEPT !.insertError = TRUE],
                                                       500, "error")]
              /\ UNCHANGED ledger
       ELSE IF UniqueViolation(ledger, d.id)
         THEN /\ pay' = [pay EXCEPT ![p] = PayReturned([d EXCEPT !.insertError = TRUE],
                                                       200, "duplicate")]
              /\ UNCHANGED ledger
         ELSE /\ pay' = [pay EXCEPT ![p].pc = "process"]
              /\ ledger' = ledger \cup {d.id}
  /\ UNCHANGED <<applied, subscription, delivered>>
  /\ UNCHANGED bookingVars

\* v3.1: the switch on event.type; the handler's throw is answered 500 by the
\* outer catch, its return 200 ok. The recorded id stays either way.
StripeWebhookV31_process(p) ==
  LET d == pay[p] IN
  /\ d.pc = "process"
  /\ \E ok \in BOOLEAN :
       IF ok
         THEN /\ subscription' = HandlerStatus(d.id)
              /\ applied' = [applied EXCEPT ![d.id] = @ + 1]
              /\ pay' = [pay EXCEPT ![p] = PayReturned([d EXCEPT !.ran = TRUE], 200, "ok")]
         ELSE /\ pay' = [pay EXCEPT ![p] = PayReturned(d, 500, "error")]
              /\ UNCHANGED <<subscription, applied>>
  /\ UNCHANGED <<ledger, delivered>>
  /\ UNCHANGED bookingVars

\* ============================================================== specifications
InitPay ==
  /\ ledger = {}
  /\ applied = [e \in EventIds |-> 0]
  /\ subscription = "inactive"
  /\ pay = [p \in Procs |-> PayIdle]
  /\ delivered = 0

\* The store before any request: no booking, U1 signed up with a profile, one
\* item of U1 at home and one in storage; U2 has an account but no profile.
Init ==
  /\ actions = <<>>
  /\ itemStatus = [i \in Items |-> IF i = "I1" THEN "home" ELSE "stored"]
  /\ profiles = {"U1"}
  /\ events = {}
  /\ completions = <<>>
  /\ notifications = <<>>
  /\ req = [p \in Procs |-> Idle]
  /\ started = 0
  /\ InitPay

Next ==
  \E p \in Procs :
    \/ handleInviteeCreated_resolve(p)
    \/ handleInviteeCreated_upsert(p)
    \/ handleInviteeCanceled_find(p)
    \/ handleInviteeCanceled_update(p)
    \/ UpdateBookingItems_load(p)
    \/ UpdateBookingItems_fetch(p)
    \/ UpdateBookingItems_update(p)
    \/ UpdateBookingItems_added(p)
    \/ UpdateBookingItems_removedPickup(p)
    \/ UpdateBookingItems_removedDelivery(p)
    \/ BookingCancel_load(p)
    \/ BookingCancel_revertPickup(p)
    \/ BookingCancel_revertDelivery(p)
    \/ BookingCancel_update(p)
    \/ CompleteService_load(p)
    \/ CompleteService_items(p)
    \/ CompleteService_complete(p)
    \/ CompleteService_email(p)
    \/ \E id \in ActionIds : OpsConfirm(id)

Spec == Init /\ [][Next]_vars

\* Two Complete requests, one per process, on a store that holds one confirmed
\* booking (a pickup or a delivery): of U1, whose claimed items are scheduled,
\* or of U2, whose profile the scheduling webhook failed to provision
\* (calendly_profile_create_failed), so that no email address is on file.
InitRace ==
  /\ \E owner \in Users, st \in {"pickup", "delivery"}, pick \in SUBSET Items :
       \E del \in SUBSET (Items \ pick) :
         /\ owner # "U1" => pick = {} /\ del = {}
         /\ actions = <<[user_id |-> owner, service_type |-> st, calendly_event_uri |-> "r1",
                         status |-> "confirmed", pickup_item_ids |-> pick,
                         delivery_item_ids |-> del]>>
         /\ itemStatus = [i \in Items |->
                            IF i \in pick \cup del THEN "scheduled"
                            ELSE IF i = "I1" THEN "home" ELSE "stored"]
  /\ profiles = {"U1"}
  /\ events = {<<1, "calendly_booking_created">>, <<1, "items_updated">>}
  /\ completions = <<0>>
  /\ notifications = <<0>>
  /\ req = [p \in Procs |-> Idle]
  /\ started = 0
  /\ InitPay

\* A Complete request arrives at a process that has served none yet.
CompleteRace_load(p) == req[p].pc = "idle" /\ CompleteService_load(p)

NextRace ==
  \E p \in Procs :
    \/ CompleteRace_load(p)
    \/ CompleteService_items(p)
    \/ CompleteService_complete(p)
    \/ CompleteService_email(p)

SpecRace == InitRace /\ [][NextRace]_vars

\* The item statuses that go with one booking in the store: the items of a
\* non-terminal booking are scheduled; a completed booking has moved the set of
\* its service type; a canceled one has given its items back.
SeededItemStatus(status, svc, pick, del) ==
  [i \in Items |->
     IF i \notin pick \cup del THEN (IF i = "I1" THEN "home" ELSE "stored")
     ELSE IF status = "canceled" THEN (IF i \in pick THEN "home" ELSE "stored")
     ELSE IF status = "completed" /\ svc = "pickup" /\ i \in pick THEN "stored"
     ELSE IF status = "completed" /\ svc = "delivery" /\ i \in del THEN "home"
     ELSE "scheduled"]

\* A store that holds one booking, in any status of the enum, a pickup or a
\* delivery, of U1 with any disjoint item sets or of U2 (who owns no item).
\* The requests that made the booking count as started: MaxSeededRequests
\* more are taken.
InitSeeded ==
  /\ \E owner \in Users, status \in Statuses, svc \in {"pickup", "delivery"},
        pick \in SUBSET Items :
       \E del \in SUBSET (Items \ pick) :
         /\ owner # "U1" => pick = {} /\ del = {}
         /\ actions = <<[user_id |-> owner, service_type |-> svc, calendly_event_uri |-> "r1",
                         status |-> status, pickup_item_ids |-> pick,
                         delivery_item_ids |-> del]>>
         /\ itemStatus = SeededItemStatus(status, svc, pick, del)
  /\ profiles = {"U1"}
  /\ events = {<<1, "calendly_booking_created">>}
  /\ completions = <<0>>
  /\ notifications = <<0>>
  /\ req = [p \in Procs |-> Idle]
  /\ started = MaxRequests - MaxSeededRequests
  /\ InitPay

SpecSeeded == InitSeeded /\ [][Next]_vars

\* Two SelectItems requests in succession on the seeded store: p2 takes the
\* second when the first, of p1, has returned, and nothing else runs.
Turn(p) ==
  IF req["p1"].pc = "done" THEN p = "p2" /\ req["p2"].pc # "done" ELSE p = "p1"

NextResubmit ==
  \E p \in Procs :
    \/ Turn(p) /\ UpdateBookingItems_load(p)
    \/ Turn(p) /\ UpdateBookingItems_fetch(p)
    \/ Turn(p) /\ UpdateBookingItems_update(p)
    \/ Turn(p) /\ UpdateBookingItems_added(p)
    \/ Turn(p) /\ UpdateBookingItems_removedPickup(p)
    \/ Turn(p) /\ UpdateBookingItems_removedDelivery(p)

SpecResubmit == InitSeeded /\ [][NextResubmit]_vars

\* SelectItems requests in succession on a store that holds one booking of U1
\* open to selection, with any disjoint item arrays, and the items in any
\* status of the enum, whether or not it goes with the arrays.
InitPartition ==
  /\ \E status \in SelectableStatuses, pick \in SUBSET Items :
       \E del \in SUBSET (Items \ pick) :
         actions = <<[user_id |-> "U1", service_type |-> "pickup", calendly_event_uri |-> "r1",
                      status |-> status, pickup_item_ids |-> pick,
                      delivery_item_ids |-> del]>>
  /\ itemStatus \in [Items -> ItemStatuses]
  /\ profiles = {"U1"}
  /\ events = {<<1, "calendly_booking_created">>}
  /\ completions = <<0>>
  /\ notifications = <<0>>
  /\ req = [p \in Procs |-> Idle]
  /\ started = MaxRequests - MaxSeededRequests
  /\ InitPay

SpecPartition == InitPartition /\ [][NextResubmit]_vars

\* The scheduling webhook alone, from the empty store: requests with any
\* header, verified or not.
InitWebhook ==
  /\ actions = <<>>
  /\ itemStatus = [i \in Items |-> IF i = "I1" THEN "home" ELSE "stored"]
  /\ profiles = {"U1"}
  /\ events = {}
  /\ completions = <<>>
  /\ notifications = <<>>
  /\ req = [p \in Procs |-> Idle]
  /\ started = MaxRequests - MaxWebhookRequests
  /\ InitPay

NextWebhook ==
  \E p \in Procs :
    \/ CalendlyWebhook_serve(p)
    \/ handleInviteeCreated_upsert(p)
    \/ handleInviteeCanceled_update(p)

SpecWebhook == InitWebhook /\ [][NextWebhook]_vars

\* Payment webhook alone: deliveries of event ids, sequential and concurrent.
NextPay ==
  \E p \in Procs :
    \/ StartDelivery(p)
    \/ StripeWebhook_check(p)
    \/ StripeWebhook_process(p)
    \/ StripeWebhook_record(p)

SpecPay == Init /\ [][NextPay]_vars

\* Deliveries to the insert-first revision (v3.1) of the payment webhook.
NextPayV31 ==
  \E p \in Procs :
    \/ StartDelivery(p)
    \/ StripeWebhookV31_insert(p)
    \/ StripeWebhookV31_process(p)

SpecPayV31 == Init /\ [][NextPayV31]_vars

\* One Complete request on the seeded store, repeated by its caller for as long
\* as it is answered 500; no other operation runs.
InitRetry ==
  /\ \E owner \in Users, status \in Statuses, svc \in {"pickup", "delivery"},
        pick \in SUBSET Items :
       \E del \in SUBSET (Items \ pick) :
         /\ owner # "U1" => pick = {} /\ del = {}
         /\ actions = <<[user_id |-> owner, service_type |-> svc, calendly_event_uri |-> "r1",
                         status |-> status, pickup_item_ids |-> pick,
                         delivery_item_ids |-> del]>>
         /\ itemStatus = SeededItemStatus(status, svc, pick, del)
  /\ profiles = {"U1"}
  /\ events = {<<1, "calendly_booking_created">>}
  /\ completions = <<0>>
  /\ notifications = <<0>>
  /\ req = [p \in Procs |-> Idle]
  /\ started = MaxRequests - 1
  /\ InitPay

NextRetry ==
  \E p \in Procs :
    \/ CompleteService_load(p)
    \/ CompleteService_retry(p)
    \/ CompleteService_items(p)
    \/ CompleteService_complete(p)
    \/ CompleteService_email(p)

\* The caller keeps retrying, a request in progress goes on, and a store call
\* that is made again and again eventually succeeds.
FairRetry ==
  \A p \in Procs :
    /\ SF_vars(CompleteService_retry(p) /\ req'[p].pc # "done")
    /\ SF_vars(CompleteService_items(p) /\ req'[p].pc = "complete")
    /\ SF_vars(CompleteService_complete(p) /\ req'[p].resp.code # 500)
    /\ WF_vars(CompleteService_email(p))

SpecRetry == InitRetry /\ [][NextRetry]_vars /\ FairRetry

\* Every endpoint together on the seeded store: one more booking request and
\* one payment delivery, in any interleaving.
InitFrame ==
  /\ \E owner \in Users, status \in Statuses, svc \in {"pickup", "delivery"},
        pick \in SUBSET Items :
       \E del \in SUBSET (Items \ pick) :
         /\ owner # "U1" => pick = {} /\ del = {}
         /\ actions = <<[user_id |-> owner, service_type |-> svc, calendly_event_uri |-> "r1",
                         status |-> status, pickup_item_ids |-> pick,
                         delivery_item_ids |-> del]>>
         /\ itemStatus = SeededItemStatus(status, svc, pick, del)
  /\ profiles = {"U1"}
  /\ events = {<<1, "calendly_booking_created">>}
  /\ completions = <<0>>
  /\ notifications = <<0>>
  /\ req = [p \in Procs |-> Idle]
  /\ started = MaxRequests - 1
  /\ ledger = {}
  /\ applied = [e \in EventIds |-> 0]
  /\ subscription = "inactive"
  /\ pay = [p \in Procs |-> PayIdle]
  /\ delivered = MaxDeliveries - 1

NextFrame ==
  \E p \in Procs :
    \/ handleInviteeCreated_resolve(p)
    \/ handleInviteeCreated_upsert(p)
    \/ handleInviteeCanceled_find(p)
    \/ handleInviteeCanceled_update(p)
    \/ UpdateBookingItems_load(p)
    \/ UpdateBookingItems_fetch(p)
    \/ UpdateBookingItems_update(p)
    \/ UpdateBookingItems_added(p)
    \/ UpdateBookingItems_removedPickup(p)
    \/ UpdateBookingItems_removedDelivery(p)
    \/ BookingCancel_load(p)
    \/ BookingCancel_revertPickup(p)
    \/ BookingCancel_revertDelivery(p)
    \/ BookingCancel_update(p)
    \/ CompleteService_load(p)
    \/ CompleteService_items(p)
    \/ CompleteService_complete(p)
    \/ CompleteService_email(p)
    \/ StartDelivery(p)
    \/ StripeWebhook_check(p)
    \/ StripeWebhook_process(p)
    \/ StripeWebhook_record(p)

SpecFrame == InitFrame /\ [][NextFrame]_vars

\* The booking handlers from the empty store, one request after the other: a
\* request arrives when the one before has returned.
InitSequential ==
  /\ actions = <<>>
  /\ itemStatus = [i \in Items |-> IF i = "I1" THEN "home" ELSE "stored"]
  /\ profiles = {"U1"}
  /\ events = {}
  /\ completions = <<>>
  /\ notifications = <<>>
  /\ req = [p \in Procs |-> Idle]
  /\ started = MaxRequests - MaxSequentialRequests
  /\ InitPay

NextSequential ==
  \E p \in Procs :
    \/ p = "p1" /\ handleInviteeCreated_resolve(p)
    \/ p = "p1" /\ handleInviteeCreated_upsert(p)
    \/ p = "p1" /\ handleInviteeCanceled_find(p)
    \/ p = "p1" /\ handleInviteeCanceled_update(p)
    \/ p = "p1" /\ UpdateBookingItems_load(p)
    \/ p = "p1" /\ UpdateBookingItems_fetch(p)
    \/ p = "p1" /\ UpdateBookingItems_update(p)
    \/ p = "p1" /\ UpdateBookingItems_added(p)
    \/ p = "p1" /\ UpdateBookingItems_removedPickup(p)
    \/ p = "p1" /\ UpdateBookingItems_removedDelivery(p)
    \/ p = "p1" /\ BookingCancel_load(p)
    \/ p = "p1" /\ BookingCancel_revertPickup(p)
    \/ p = "p1" /\ BookingCancel_revertDelivery(p)
    \/ p = "p1" /\ BookingCancel_update(p)
    \/ p = "p1" /\ CompleteService_load(p)
    \/ p = "p1" /\ CompleteService_items(p)
    \/ p = "p1" /\ CompleteService_complete(p)
    \/ p = "p1" /\ CompleteService_email(p)

SpecSequential == InitSequential /\ [][NextSequential]_vars

\* The handlers of the repository alone, from the empty store and running
\* concurrently: nothing outside them writes to the store.
InitHandlers ==
  /\ actions = <<>>
  /\ itemStatus = [i \in Items |-> IF i = "I1" THEN "home" ELSE "stored"]
  /\ profiles = {"U1"}
  /\ events = {}
  /\ completions = <<>>
  /\ notifications = <<>>
  /\ req = [p \in Procs |-> Idle]
  /\ started = MaxRequests - MaxHandlerRequests
  /\ InitPay

NextHandlers ==
  \E p \in Procs :
    \/ handleInviteeCreated_resolve(p)
    \/ handleInviteeCreated_upsert(p)
    \/ handleInviteeCanceled_find(p)
    \/ handleInviteeCanceled_update(p)
    \/ UpdateBookingItems_load(p)
    \/ UpdateBookingItems_fetch(p)
    \/ UpdateBookingItems_update(p)
    \/ UpdateBookingItems_added(p)
    \/ UpdateBookingItems_removedPickup(p)
    \/ UpdateBookingItems_removedDelivery(p)
    \/ BookingCancel_load(p)
    \/ BookingCancel_revertPickup(p)
    \/ BookingCancel_revertDelivery(p)
    \/ BookingCancel_update(p)
    \/ CompleteService_load(p)
    \/ CompleteService_items(p)
    \/ CompleteService_complete(p)
    \/ CompleteService_email(p)

SpecHandlers == InitHandlers /\ [][NextHandlers]_vars

\* ====================================================================== claims
\* Both processes have served a Complete request of a staff caller on booking 1
\* and both were answered 200 (no store call of either failed).
BothCompleted200 ==
  \A p \in Procs :
    /\ req[p].pc = "done" /\ req[p].kind = "complete"
    /\ req[p].caller \in Staff /\ req[p].arg = 1
    /\ req[p].resp.code = 200

C2_TerminalPermanent ==
  [][\A id \in ActionIds :
       actions[id].status \in Terminal => actions'[id].status = actions[id].status]_vars

\* The items a booking claims.
Claimed(id) == actions[id].pickup_item_ids \cup actions[id].delivery_item_ids

\* C3: no item is in the pickup or delivery set of two non-terminal bookings at
\* once, whatever the interleaving of the requests.
C3_NoDoubleClaim ==
  \A a, b \in ActionIds :
    (a # b /\ actions[a].status \notin Terminal /\ actions[b].status \notin Terminal)
      => Claimed(a) \cap Claimed(b) = {}

\* C4: whatever invitee.created deliveries are made for a scheduling reference
\* whose invitee resolves to an owner, at most one booking ever carries the
\* reference; a delivery answered 200 leaves exactly one, and when the booking
\* was there already it is that booking, updated, and no row is added.
C4_OneBookingPerReference ==
  /\ [](\A u \in Refs : Cardinality(ActionsByUri(u)) <= 1)
  /\ [][\A p \in Procs :
         (/\ req[p].kind = "created" /\ req[p].pc = "upsert"
          /\ req'[p].pc = "done" /\ req'[p].resp.code = 200)
         => /\ Cardinality(ActionsByUri(req[p].uri)') = 1
            /\ ActionsByUri(req[p].uri) # {}
                 => /\ Len(actions') = Len(actions)
                    /\ ActionsByUri(req[p].uri)' = ActionsByUri(req[p].uri)]_vars

\* Both processes delivered invitee.created for r1, each for an invitee with an
\* account, both were answered 200, and one booking carries r1.
C4_Witness ==
  /\ \A p \in Procs :
       /\ req[p].pc = "done" /\ req[p].kind = "created"
       /\ req[p].uri = "r1" /\ req[p].resp.code = 200
  /\ <<0, "calendly_orphan_booking">> \notin events
  /\ Cardinality(ActionsByUri("r1")) = 1

\* A delivery that arrived when its event id was already recorded and whose
\* ledger lookup answered has returned.
RedeliveryDone(p) == pay[p].pc = "done" /\ pay[p].seen /\ ~pay[p].checkError

C7_RecordAfterSuccess ==
  /\ [](\A e \in ledger : applied[e] >= 1)
  /\ [](\A p \in Procs : (pay[p].pc = "done" /\ pay[p].resp.code = 500) => ~pay[p].ran)
  /\ [][\A p \in Procs :
         /\ (pay[p].pc = "process" /\ pay'[p].pc = "done")
              => /\ pay'[p].resp.code = 500
                 /\ ledger' = ledger /\ applied' = applied /\ subscription' = subscription
         /\ (ledger' # ledger /\ pay'[p] # pay[p])
              => /\ pay[p].pc = "record" /\ pay[p].ran
                 /\ ledger' = ledger \cup {pay[p].id}
         /\ (pay[p].pc = "check" /\ pay[p].id \notin ledger /\ pay'[p] # pay[p])
              => pay'[p].pc = "process"]_vars

\* A delivery of evt_1 failed in its handler and was answered 500; another
\* delivery of evt_1 was processed, not skipped, and recorded the id.
C7_Witness ==
  \E p, q \in Procs :
    /\ pay[p].pc = "done" /\ pay[p].id = "evt_1" /\ pay[p].resp.code = 500
    /\ pay[q].pc = "done" /\ pay[q].id = "evt_1" /\ pay[q].ran
    /\ pay[q].resp = [code |-> 200, body |-> "ok"]
    /\ ledger = {"evt_1"} /\ applied["evt_1"] = 1

\* In this step process p took a request of the given kind on an existing
\* booking (arrival and first store call are one step).
Arrived(p, kind) ==
  /\ started' = started + 1
  /\ req'[p] # req[p]
  /\ req'[p].kind = kind
  /\ req'[p].arg \in ActionIds

\* C8: CustomerCancel by the owner on a booking that is already canceled is
\* answered 200 ok/canceled and changes no booking field and no item status.
C8_CancelIdempotent ==
  [][\A p \in Procs :
       (/\ Arrived(p, "cancel")
        /\ actions[req'[p].arg].user_id = req'[p].caller
        /\ actions[req'[p].arg].status = "canceled")
       => /\ req'[p].pc = "done"
          /\ req'[p].resp = [code |-> 200, body |-> "canceled"]
          /\ actions' = actions /\ itemStatus' = itemStatus
          /\ events' = events]_vars

\* The owner's cancel of a booking that the scheduling provider had canceled
\* (no portal cancel ever reached its status write) was answered 200.
C8_Witness ==
  \E p \in Procs :
    /\ req[p].pc = "done" /\ req[p].kind = "cancel" /\ req[p].arg \in ActionIds
    /\ req[p].resp = [code |-> 200, body |-> "canceled"]
    /\ actions[req[p].arg].status = "canceled"
    /\ actions[req[p].arg].user_id = req[p].caller
    /\ <<req[p].arg, "calendly_booking_canceled">> \in events
    /\ <<req[p].arg, "portal_booking_canceled">> \notin events

\* C9: whenever CustomerCancel on a pending booking returns success, the status
\* is canceled, every item of its pickup set is home and every item of its
\* delivery set is stored; the reverts are in place when the status is written.
C9_CancelReverts ==
  [][\A p \in Procs :
       (/\ req[p].kind = "cancel" /\ req[p].pc = "update"
        /\ req'[p].pc = "done" /\ req'[p].resp.code = 200)
       => LET id == req[p].action.id IN
          /\ actions'[id].status = "canceled"
          /\ \A i \in actions'[id].pickup_item_ids : itemStatus'[i] = "home"
          /\ \A i \in actions'[id].delivery_item_ids : itemStatus'[i] = "stored"]_vars

\* What a handler answers for a booking id that does not exist.
NotFound(kind) ==
  IF kind = "select" THEN [code |-> 404, body |-> "Action not found"]
                     ELSE [code |-> 404, body |-> "Booking not found"]

\* C10: SelectItems and CustomerCancel on a booking of another owner are
\* answered with the NotFound they give for an id that does not exist, and
\* change nothing.
C10_StrangerGetsNotFound ==
  [][\A p \in Procs :
       (/\ Arrived(p, "select") \/ Arrived(p, "cancel")
        /\ actions[req'[p].arg].user_id # req'[p].caller)
       => /\ req'[p].pc = "done"
          /\ req'[p].resp = NotFound(req'[p].kind)
          /\ actions' = actions /\ itemStatus' = itemStatus]_vars

\* The owner of an existing booking calls the handler of the given kind.
OwnerArrived(p, kind) ==
  /\ Arrived(p, kind)
  /\ actions[req'[p].arg].user_id = req'[p].caller

\* C11: SelectItems by the owner goes past its load only on a booking it read
\* as pending_items or pending_confirmation, its booking write leaves the
\* status pending_confirmation, and only a request that made that write is
\* answered 200; on any other status the call is rejected with 400 at once and
\* the bookings (status, item sets) and all item statuses are unchanged.
C11_SelectOnlyPending ==
  [][\A p \in Procs :
       /\ (OwnerArrived(p, "select")
             /\ actions[req'[p].arg].status \notin {"pending_items", "pending_confirmation"})
          => /\ req'[p].pc = "done" /\ req'[p].resp.code = 400
             /\ actions' = actions /\ itemStatus' = itemStatus
       /\ (req'[p].kind = "select" /\ req'[p].pc \notin {"idle", "done"})
          => req'[p].action.status \in {"pending_items", "pending_confirmation"}
       /\ (req[p].kind = "select" /\ req[p].pc = "update" /\ req'[p] # req[p]
             /\ req'[p].resp.code # 500)
          => actions'[req[p].action.id].status = "pending_confirmation"
       /\ (req'[p] # req[p] /\ req'[p].kind = "select" /\ req'[p].pc = "done"
             /\ req'[p].resp.code = 200)
          => /\ req[p].pc \in {"update", "added", "removedPickup", "removedDelivery"}
             /\ <<req'[p].arg, "items_updated">> \in events']_vars

\* The owner's SelectItems on a confirmed booking was rejected with 400, and
\* another SelectItems of the owner has succeeded on a pending booking.
C11_Witness ==
  \E p, q \in Procs :
    /\ req[p].pc = "done" /\ req[p].kind = "select" /\ req[p].arg \in ActionIds
    /\ req[p].resp.code = 400
    /\ actions[req[p].arg].user_id = req[p].caller
    /\ actions[req[p].arg].status = "confirmed"
    /\ req[q].pc = "done" /\ req[q].kind = "select" /\ req[q].resp.code = 200

\* C12: CustomerCancel by the owner on a booking whose status is confirmed,
\* in_progress or completed is rejected with 409 and leaves the booking's
\* status (the whole row) and every item's status unchanged.
C12_CancelRejected ==
  [][\A p \in Procs :
       (OwnerArrived(p, "cancel")
          /\ actions[req'[p].arg].status \in {"confirmed", "in_progress", "completed"})
       => /\ req'[p].pc = "done"
          /\ req'[p].resp = [code |-> 409, body |-> "Cannot cancel booking"]
          /\ actions' = actions /\ itemStatus' = itemStatus]_vars

\* The owner's cancel of a booking in progress that claims an item was rejected
\* with 409.
C12_Witness ==
  \E p \in Procs :
    /\ req[p].pc = "done" /\ req[p].kind = "cancel" /\ req[p].arg = 1
    /\ req[p].resp.code = 409
    /\ actions[1].user_id = req[p].caller
    /\ actions[1].status = "in_progress"
    /\ actions[1].pickup_item_ids # {}

\* C13: Complete by a staff caller on a booking that it loads in a status other
\* than confirmed or pending_confirmation fails with the invalid-state error
\* (400) and has no side effect: no item status changes, the bookings are
\* unchanged, no audit event is written and no notification is triggered.
C13_CompleteInvalidState ==
  [][\A p \in Procs :
       (/\ Arrived(p, "complete")
        /\ req'[p].caller \in Staff
        /\ req'[p].resp.body # "Staff check failed"
        /\ actions[req'[p].arg].status \notin {"confirmed", "pending_confirmation"})
       => /\ req'[p].pc = "done"
          /\ req'[p].resp = [code |-> 400, body |-> "Cannot complete"]
          /\ actions' = actions /\ itemStatus' = itemStatus
          /\ events' = events
          /\ notifications' = notifications /\ completions' = completions]_vars

\* Complete on a booking still in pending_items that claims an item was
\* answered 400, and nothing was completed.
C13_Witness ==
  \E p \in Procs :
    /\ req[p].pc = "done" /\ req[p].kind = "complete" /\ req[p].arg = 1
    /\ req[p].caller \in Staff
    /\ req[p].resp = [code |-> 400, body |-> "Cannot complete"]
    /\ actions[1].status = "pending_items"
    /\ actions[1].pickup_item_ids # {}
    /\ completions[1] = 0

\* The transition table of the booking state machine: the statuses a booking
\* may move to from each status.
TransitionTable(from) ==
  CASE from = "pending_items" -> {"pending_confirmation", "canceled"}
    [] from = "pending_confirmation" -> {"confirmed", "canceled", "pending_confirmation"}
    [] from = "confirmed" -> {"in_progress", "completed", "canceled"}
    [] from = "in_progress" -> {"completed", "canceled"}
    [] OTHER -> {}

\* C14: no operation ever moves a booking from a status to another one unless
\* the pair is in the transition table.
C14_OnlyTableTransitions ==
  [][\A id \in ActionIds :
       actions'[id].status # actions[id].status
         => actions'[id].status \in TransitionTable(actions[id].status)]_vars

\* A scheduling webhook request fails verification: the signature header is
\* missing, the signing secret is not configured, the header is malformed, the
\* timestamp is not a positive number within the skew bound of the clock, or
\* the signature is not the HMAC of timestamp and body under the secret.
FailsVerification(w) ==
  \/ w.hdr.form = "missing"
  \/ ~w.key
  \/ w.hdr.form = "malformed"
  \/ w.hdr.t.k # "num"
  \/ w.hdr.t.v <= 0
  \/ (w.nowMs \div 1000) - w.hdr.t.v > 300
  \/ w.hdr.t.v - (w.nowMs \div 1000) > 300
  \/ w.hdr.v1 # <<SigningKey, w.hdr.t, Body>>

CorrectlySigned(w) ==
  /\ w # NoWebhook
  /\ w.hdr.form = "ok" /\ w.key
  /\ w.hdr.v1 = <<SigningKey, w.hdr.t, Body>>

\* The timestamp is a positive finite number at most 300 seconds away from the
\* handler's clock (in whole seconds), in the past or in the future.
WithinSkew(w) ==
  /\ w.hdr.t.k = "num" /\ w.hdr.t.v > 0
  /\ (w.nowMs \div 1000) - w.hdr.t.v <= 300
  /\ w.hdr.t.v - (w.nowMs \div 1000) <= 300

\* C16: a correctly signed scheduling webhook passes the freshness check
\* exactly when its timestamp is a positive finite number with
\* |now - t| <= 300 s: otherwise it is rejected with 401 and reason
\* stale_signature_timestamp; the bound is the same for future timestamps.
C16_FreshnessBound ==
  \A p \in Procs :
    CorrectlySigned(req[p].wh) =>
      IF WithinSkew(req[p].wh)
        THEN ~(req[p].kind = "webhook" /\ req[p].resp.code \in {401, 500})
        ELSE /\ req[p].pc = "done" /\ req[p].kind = "webhook"
             /\ req[p].resp = [code |-> 401, body |-> "stale_signature_timestamp"]

\* A correctly signed request 10 minutes old was rejected as stale, and one
\* 2 minutes old was accepted and has made its booking.
C16_Witness ==
  \E p, q \in Procs :
    /\ CorrectlySigned(req[p].wh) /\ req[p].wh.hdr.t = Num(400)
    /\ req[p].resp = [code |-> 401, body |-> "stale_signature_timestamp"]
    /\ CorrectlySigned(req[q].wh) /\ req[q].wh.hdr.t = Num(880)
    /\ req[q].pc = "done" /\ req[q].kind = "created" /\ req[q].resp.code = 200
    /\ Len(actions) = 1

\* A step of the select request of p that loaded booking arrays pick and del,
\* was sent the candidate set sel, and runs with the item statuses st.
SelectRuns(p, sel, pick, del, st) ==
  /\ req'[p] # req[p]
  /\ req[p].kind = "select" /\ req[p].pc # "done"
  /\ req[p].selected = sel
  /\ req[p].action.pickup_item_ids = pick /\ req[p].action.delivery_item_ids = del
  /\ itemStatus = st

\* What such a request does, store errors aside: it computes and writes the
\* arrays newPick and newDel, then makes the one item write `write`, which
\* leaves the item statuses newSt, and answers 200.
SelectGives(p, newPick, newDel, write, newSt) ==
  /\ req[p].pc \in {"fetch", "update", write}
  /\ (req[p].pc = "fetch" /\ req'[p].resp.code # 500)
       => /\ req'[p].pc = "update"
          /\ req'[p].pickupItemIds = newPick /\ req'[p].deliveryItemIds = newDel
  /\ (req[p].pc = "update" /\ req'[p].resp.code # 500)
       => /\ actions'[req[p].arg].pickup_item_ids = newPick
          /\ actions'[req[p].arg].delivery_item_ids = newDel
          /\ actions'[req[p].arg].status = "pending_confirmation"
          /\ req'[p].pc = write
  /\ req[p].pc = write
       => /\ itemStatus' \in {newSt, itemStatus}
          /\ req'[p].pc = "done" /\ req'[p].resp.code = 200
  /\ req[p].pc # write => itemStatus' = itemStatus

C18_ArraysDisjoint ==
  \A id \in ActionIds :
    actions[id].pickup_item_ids \cap actions[id].delivery_item_ids = {}

\* A booking holds a pickup item and a delivery item after a second SelectItems
\* request, which found both items scheduled, has rewritten its arrays.
C18_Witness ==
  \E id \in ActionIds, p, q \in Procs :
    /\ actions[id].pickup_item_ids = {"I1"} /\ actions[id].delivery_item_ids = {"I2"}
    /\ itemStatus = [I1 |-> "scheduled", I2 |-> "scheduled"]
    /\ p # q
    /\ req[p].pc = "done" /\ req[p].kind = "select" /\ req[p].arg = id
    /\ req[p].resp.code = 200 /\ req[p].selected = {"I1", "I2"}
    /\ req[q].pc = "done" /\ req[q].kind = "select" /\ req[q].arg = id
    /\ req[q].resp.code = 200 /\ req[q].selected = {"I1", "I2"}

\* C19: in every reachable state every item in the pickup_item_ids or the
\* delivery_item_ids of a booking is owned by the booking's owner, and no step
\* of a SelectItems request changes the status of an item that is not the
\* caller's.
C19_ItemsOfOwner ==
  /\ [](\A id \in ActionIds :
          \A i \in actions[id].pickup_item_ids \cup actions[id].delivery_item_ids :
            ItemOwner(i) = actions[id].user_id)
  /\ [][\A p \in Procs :
          (req[p].kind = "select" /\ req'[p] # req[p])
            => \A i \in Items :
                 ItemOwner(i) # req[p].caller => itemStatus'[i] = itemStatus[i]]_vars

\* A scheduling event of the given type has arrived at p with a
\* scheduled_event.uri (the step is the handler's first).
EventArrived(p, kind) ==
  /\ started' = started + 1
  /\ req'[p] # req[p]
  /\ req'[p].kind = kind
  /\ req'[p].uri # NoUri

\* C20: an invitee.created event for an email with neither a profile nor an
\* auth user creates no booking, and an invitee.canceled event whose uri no
\* booking carries changes no booking; each is logged as an orphan event and
\* answered 200.
C20_OrphanEvents ==
  [][\A p \in Procs :
       /\ (EventArrived(p, "created") /\ req'[p].email = "nobody@")
            => /\ actions' = actions /\ itemStatus' = itemStatus /\ profiles' = profiles
               /\ req'[p].pc = "done" /\ req'[p].resp.code = 200
               /\ <<0, "calendly_orphan_booking">> \in events'
       /\ (/\ EventArrived(p, "canceled")
           /\ \A id \in ActionIds : actions[id].calendly_event_uri # req'[p].uri)
            => /\ actions' = actions /\ itemStatus' = itemStatus /\ profiles' = profiles
               /\ req'[p].pc = "done" /\ req'[p].resp.code = 200
               /\ <<0, "calendly_orphan_cancellation">> \in events']_vars

\* With one booking in the store, an invitee.created for nobody@ and an
\* invitee.canceled for a uri that no booking carries were both answered 200
\* and logged; the booking is as it was made.
C20_Witness ==
  \E p, q \in Procs :
    /\ req[p].pc = "done" /\ req[p].kind = "created" /\ req[p].email = "nobody@"
    /\ req[p].uri = "r2" /\ req[p].resp.code = 200
    /\ req[q].pc = "done" /\ req[q].kind = "canceled" /\ req[q].uri = "r2"
    /\ req[q].resp.code = 200
    /\ <<0, "calendly_orphan_booking">> \in events
    /\ <<0, "calendly_orphan_cancellation">> \in events
    /\ Len(actions) = 1 /\ actions[1].calendly_event_uri = "r1"
    /\ actions[1].status = "pending_items"

Processing(e) == {p \in Procs : pay[p].pc = "process" /\ pay[p].id = e}

\* C22: in the insert-first revision, of all deliveries of one event id, in
\* sequence or at once, at most one gets to the event's handler: it is the one
\* whose insert recorded the id; a delivery whose insert finds the id recorded
\* is answered 200 duplicate (500 if the store fails the insert otherwise) and
\* runs nothing.
C22_InsertFirstAtMostOnce ==
  /\ [](\A e \in EventIds :
          /\ applied[e] + Cardinality(Processing(e)) <= 1
          /\ Processing(e) # {} => e \in ledger)
  /\ [][\A p \in Procs :
          /\ (pay[p].pc = "check" /\ pay'[p].pc = "process")
               => pay[p].id \notin ledger /\ pay[p].id \in ledger'
          /\ (pay[p].pc = "check" /\ pay'[p] # pay[p] /\ pay[p].id \in ledger)
               => /\ pay'[p].pc = "done"
                  /\ pay'[p].resp \in {[code |-> 200, body |-> "duplicate"],
                                      [code |-> 500, body |-> "error"]}
                  /\ applied' = applied /\ subscription' = subscription
                  /\ ledger' = ledger
          /\ ledger \subseteq ledger']_vars

\* Two deliveries of evt_1 arrived before either had recorded the id: one ran
\* the handler, the other hit the unique constraint and was answered duplicate.
C22_Witness ==
  \E p, q \in Procs :
    /\ pay[p].pc = "done" /\ pay[p].id = "evt_1" /\ pay[p].ran /\ ~pay[p].seen
    /\ pay[p].resp = [code |-> 200, body |-> "ok"]
    /\ pay[q].pc = "done" /\ pay[q].id = "evt_1" /\ ~pay[q].ran /\ ~pay[q].seen
    /\ pay[q].resp = [code |-> 200, body |-> "duplicate"]
    /\ applied["evt_1"] = 1

\* The id of e is recorded, while its handler has not run to its end and is
\* running in no delivery: the handler failed after the insert.
HandlerLost(e) == e \in ledger /\ applied[e] = 0 /\ Processing(e) = {}

\* C29: in the insert-first revision an event whose id was recorded and whose
\* handler failed stays that way: no later step runs its handler, and a
\* delivery that arrives after the insert never runs the handler and is
\* answered as a duplicate (500 if the store fails its insert otherwise).
C29_NeverRetried ==
  /\ [][\A e \in EventIds : HandlerLost(e) => HandlerLost(e)']_vars
  /\ [](\A p \in Procs :
          pay[p].seen
            => /\ ~pay[p].ran /\ pay[p].pc \in {"check", "done"}
               /\ pay[p].pc = "done"
                    => pay[p].resp \in {[code |-> 200, body |-> "duplicate"],
                                        [code |-> 500, body |-> "error"]})

\* The handler of evt_1 failed after its id was recorded (500); the redelivery
\* was answered duplicate and the event was never applied.
C29_Witness ==
  \E p, q \in Procs :
    /\ pay[p].pc = "done" /\ pay[p].id = "evt_1" /\ ~pay[p].seen
    /\ ~pay[p].insertError /\ pay[p].resp = [code |-> 500, body |-> "error"]
    /\ pay[q].pc = "done" /\ pay[q].id = "evt_1" /\ pay[q].seen
    /\ pay[q].resp = [code |-> 200, body |-> "duplicate"]
    /\ HandlerLost("evt_1") /\ subscription = "inactive"

\* C23: a Complete request whose item update returned an error ends there with
\* 500: the step changes no booking, no item, no audit event and no
\* notification, and the request takes no step after it.
C23_ItemFailureAborts ==
  /\ [](\A p \in Procs :
          (req[p].kind = "complete" /\ req[p].updateError)
            => /\ req[p].pc = "done"
               /\ req[p].resp = [code |-> 500, body |-> "Failed to update items"])
  /\ [][\A p \in Procs :
          (req'[p] # req[p] /\ req'[p].kind = "complete" /\ req'[p].updateError)
            => /\ actions' = actions /\ itemStatus' = itemStatus
               /\ events' = events /\ notifications' = notifications
               /\ completions' = completions]_vars

\* The item update of a Complete request on the confirmed booking 1 failed:
\* the booking is still confirmed, its item scheduled, nothing was logged for
\* the completion and no notification went out.
C23_Witness ==
  \E p \in Procs :
    /\ req[p].pc = "done" /\ req[p].kind = "complete" /\ req[p].arg = 1
    /\ req[p].updateError /\ req[p].resp.code = 500
    /\ actions[1].status = "confirmed" /\ actions[1].service_type = "pickup"
    /\ actions[1].pickup_item_ids = {"I1"} /\ itemStatus["I1"] = "scheduled"
    /\ <<1, "service_completed">> \notin events
    /\ completions[1] = 0 /\ notifications[1] = 0

\* The step in which the Complete request of p wins the conditional update.
CompleteWins(p) ==
  /\ req[p].kind = "complete" /\ req[p].pc = "complete"
  /\ req'[p].pc = "email"

\* C24: when a Complete request wins the conditional update, every item in the
\* pickup_item_ids of a pickup booking is stored and every item in the
\* delivery_item_ids of a delivery booking is home; the item update of the
\* request leaves the items outside that set as they are.
C24_CompletionMovesItems ==
  [][\A p \in Procs :
       /\ CompleteWins(p)
            => LET a == actions'[req[p].action.id] IN
               /\ a.service_type = "pickup"
                    => \A i \in a.pickup_item_ids : itemStatus'[i] = "stored"
               /\ a.service_type = "delivery"
                    => \A i \in a.delivery_item_ids : itemStatus'[i] = "home"
       /\ (req[p].kind = "complete" /\ req[p].pc = "items" /\ req'[p] # req[p])
            => \A i \in Items \ CompleteItemIds(req[p].action) :
                 itemStatus'[i] = itemStatus[i]]_vars

\* C25: when the conditional update of a Complete request finds the booking in
\* neither confirmed nor pending_confirmation (and the store returns no error),
\* the request is answered 200 with already_completed, and the step changes no
\* booking, writes no audit event and triggers no notification.
C25_ZeroRowsIdempotent ==
  [][\A p \in Procs :
       (/\ req[p].kind = "complete" /\ req[p].pc = "complete"
        /\ req'[p] # req[p] /\ req'[p].resp.code # 500
        /\ actions[req[p].action.id].status \notin {"confirmed", "pending_confirmation"})
       => /\ req'[p].pc = "done"
          /\ req'[p].resp = [code |-> 200, body |-> "already_completed"]
          /\ actions' = actions /\ itemStatus' = itemStatus
          /\ events' = events /\ completions' = completions
          /\ notifications' = notifications]_vars

\* A Complete request loaded booking 1 as completable; an invitee.canceled
\* event canceled the booking before the conditional update, which matched no
\* row: 200 already_completed, no completion logged, nobody notified.
C25_Witness ==
  \E p, q \in Procs :
    /\ req[p].pc = "done" /\ req[p].kind = "complete" /\ req[p].arg = 1
    /\ req[p].resp = [code |-> 200, body |-> "already_completed"]
    /\ req[q].pc = "done" /\ req[q].kind = "canceled" /\ req[q].resp.code = 200
    /\ actions[1].status = "canceled"
    /\ <<1, "service_completed">> \notin events
    /\ completions[1] = 0 /\ notifications[1] = 0

\* C26: the partition of SelectItems goes by the status each selected item has
\* when the items are fetched: home to the new pickup set, stored to the new
\* delivery set, scheduled to the set of the direction it had in the booking's
\* previous arrays; a scheduled item of neither previous array, an item in any
\* other status and an item that was not selected go to neither set.
C26_PartitionByFreshStatus ==
  [][\A p \in Procs :
       (req[p].kind = "select" /\ req[p].pc = "fetch" /\ req'[p].pc = "update")
       => LET prevPickup == req[p].action.pickup_item_ids
              prevDelivery == req[p].action.delivery_item_ids
              toPickup(i) == i \in req'[p].pickupItemIds /\ i \notin req'[p].deliveryItemIds
              toDelivery(i) == i \in req'[p].deliveryItemIds /\ i \notin req'[p].pickupItemIds
              toNeither(i) == i \notin req'[p].pickupItemIds \cup req'[p].deliveryItemIds
          IN
          \A i \in Items :
            IF i \notin req[p].selected THEN toNeither(i)
            ELSE IF itemStatus[i] = "home" THEN toPickup(i)
            ELSE IF itemStatus[i] = "stored" THEN toDelivery(i)
            ELSE IF itemStatus[i] = "scheduled" /\ i \in prevPickup THEN toPickup(i)
            ELSE IF itemStatus[i] = "scheduled" /\ i \in prevDelivery THEN toDelivery(i)
            ELSE toNeither(i)]_vars

\* A request that selected both items has partitioned them: I1, scheduled and
\* in the previous delivery array, stays a delivery; I2, in transit, is in
\* neither set.
C26_Witness ==
  \E p \in Procs :
    /\ req[p].kind = "select" /\ req[p].pc = "update"
    /\ req[p].selected = {"I1", "I2"}
    /\ req[p].action.pickup_item_ids = {} /\ req[p].action.delivery_item_ids = {"I1"}
    /\ itemStatus = [I1 |-> "scheduled", I2 |-> "in_transit"]
    /\ req[p].pickupItemIds = {} /\ req[p].deliveryItemIds = {"I1"}

\* The items the spec counts as newly claimed by the select request r.
NewlyClaimed(r) ==
  (r.pickupItemIds \cup r.deliveryItemIds)
    \ (r.action.pickup_item_ids \cup r.action.delivery_item_ids)

\* C27: a SelectItems request sets to scheduled exactly the items of the new
\* pickup and delivery sets that were in neither previous set: its update for
\* the added items writes that set, no step of it makes another item
\* scheduled, and when it has answered 200 with no item update failed every
\* item of the new sets is scheduled.
C27_AddedExactly ==
  [][\A p \in Procs :
       (req[p].kind = "select" /\ req'[p] # req[p]
        /\ req[p].pc \in {"update", "added", "removedPickup", "removedDelivery"})
       => /\ \A i \in Items :
               (itemStatus'[i] = "scheduled" /\ itemStatus[i] # "scheduled")
                 => i \in NewlyClaimed(req[p])
          /\ (req[p].pc = "update" /\ req'[p].resp.code # 500)
               => (req'[p].pc = "added") = (NewlyClaimed(req[p]) # {})
          /\ (req[p].pc = "added" /\ ~req'[p].updateError)
               => \A i \in NewlyClaimed(req[p]) : itemStatus'[i] = "scheduled"
          /\ (req'[p].pc = "done" /\ req'[p].resp.code = 200 /\ ~req'[p].updateError)
               => \A i \in req[p].pickupItemIds \cup req[p].deliveryItemIds :
                    itemStatus'[i] = "scheduled"]_vars

C30_LedgerErrorsTolerated ==
  /\ [](\A p \in Procs :
          /\ pay[p].checkError
               => /\ pay[p].pc \in {"process", "record", "done"}
                  /\ pay[p].pc = "done"
                       => \/ pay[p].ran /\ pay[p].resp = [code |-> 200, body |-> "ok"]
                          \/ ~pay[p].ran /\ pay[p].resp = [code |-> 500, body |-> "error"]
          /\ (pay[p].ran /\ pay[p].insertError)
               => /\ pay[p].pc = "done"
                  /\ pay[p].resp = [code |-> 200, body |-> "ok"])
  /\ [][\A p \in Procs :
          /\ (pay[p].pc = "check" /\ pay'[p].checkError)
               => (pay'[p].pc = "process" /\ applied' = applied)
          /\ (pay[p].pc = "process" /\ pay[p].checkError /\ pay'[p].ran)
               => applied'[pay[p].id] = applied[pay[p].id] + 1
          /\ (pay[p].pc = "record" /\ pay'[p].insertError)
               => (pay'[p].resp = [code |-> 200, body |-> "ok"] /\ ledger' = ledger)]_vars

\* A delivery whose ledger lookup failed ran its handler, then its ledger
\* insert failed too, and it was answered 200 ok with the ledger still empty.
C30_Witness ==
  \E p \in Procs :
    /\ pay[p].pc = "done" /\ pay[p].checkError /\ pay[p].ran /\ pay[p].insertError
    /\ pay[p].resp = [code |-> 200, body |-> "ok"]
    /\ applied[pay[p].id] = 1
    /\ ledger = {}

\* The booking a Complete request names is completed and the items of its
\* service type are in the target status.
CompletedWithItems(id) ==
  /\ id \in ActionIds
  /\ actions[id].status = "completed"
  /\ \A i \in CompleteItemIds(actions[id]) : itemStatus[i] = CompleteItemStatus(actions[id])

\* C31: a Complete request that was aborted by a failed item update can be
\* repeated safely.  With no other operation on the booking and store calls
\* that eventually succeed, the repeated request leads to the booking being
\* completed with the items of its service type in the target status; and an
\* item update of a Complete request on items that are already in the target
\* status changes no item status.
C31_RetrySafe ==
  /\ \A p \in Procs :
       (req[p].pc = "done" /\ req[p].kind = "complete"
        /\ req[p].resp = [code |-> 500, body |-> "Failed to update items"])
         ~> CompletedWithItems(req[p].arg)
  /\ [][\A p \in Procs :
          (req[p].kind = "complete" /\ req[p].pc = "items" /\ req'[p] # req[p]
           /\ \A i \in CompleteItemIds(req[p].action) :
                itemStatus[i] = CompleteItemStatus(req[p].action))
            => itemStatus' = itemStatus]_vars

\* A repeated Complete request, sent after an abort, has completed the pickup
\* booking and stored its item.
C31_Witness ==
  \E p \in Procs :
    /\ req[p].kind = "complete" /\ req[p].retry /\ req[p].pc = "done"
    /\ req[p].resp = [code |-> 200, body |-> "ok"]
    /\ actions[1].status = "completed" /\ actions[1].service_type = "pickup"
    /\ actions[1].pickup_item_ids = {"I1"} /\ itemStatus["I1"] = "stored"
    /\ completions[1] = 1

\* The process p takes a step of a request of one of the kinds.
StepOf(p, kinds) ==
  /\ req'[p] # req[p]
  /\ \/ req[p].pc \notin {"idle", "done"} /\ req[p].kind \in kinds
     \/ req[p].pc \in {"idle", "done"} /\ req'[p].kind \in kinds

\* C32: an item's status is changed only by SelectItems, CustomerCancel and
\* Complete.  Every step that changes an item status is a step of a select,
\* cancel or complete request; every step of an invitee.created or
\* invitee.canceled delivery and every step of a payment delivery leaves all
\* item statuses as they were; and every step of a payment delivery leaves
\* every booking as it was.
C32_ItemStatusFrame ==
  [][/\ itemStatus' # itemStatus
          => \E p \in Procs :
               /\ req[p].kind \in {"select", "cancel", "complete"}
               /\ req[p].pc \notin {"idle", "done"}
               /\ req'[p] # req[p]
     /\ \A p \in Procs :
          /\ StepOf(p, {"created", "canceled"}) => itemStatus' = itemStatus
          /\ pay'[p] # pay[p] => (itemStatus' = itemStatus /\ actions' = actions)]_vars

\* The provider has canceled a booking that claimed I1, which stays scheduled,
\* and a payment delivery has run its handler beside it.
C32_Witness ==
  /\ \E p \in Procs :
       /\ req[p].kind = "canceled" /\ req[p].pc = "done"
       /\ req[p].resp = [code |-> 200, body |-> "ok"]
  /\ actions[1].status = "canceled" /\ actions[1].pickup_item_ids = {"I1"}
  /\ itemStatus["I1"] = "scheduled"
  /\ \E p \in Procs : pay[p].pc = "done" /\ pay[p].ran

\* C33: every item whose status is scheduled is in the pickup or delivery array
\* of some booking that is neither completed nor canceled.
C33_ScheduledItemsClaimed ==
  \A i \in Items :
    itemStatus[i] = "scheduled"
      => \E id \in ActionIds :
           /\ actions[id].status \notin Terminal
           /\ i \in actions[id].pickup_item_ids \cup actions[id].delivery_item_ids

\* No request is between two of its store calls.
Quiescent == \A p \in Procs : req[p].pc \in {"idle", "done"}

\* C34: every item in the pickup or delivery array of a booking in status
\* pending_confirmation has status scheduled.  Checked where the claim is
\* weakest, in the states in which every request has returned: the states
\* between a request's booking update and its item update break it as well.
C34_PendingItemsScheduled ==
  Quiescent
    => \A id \in ActionIds :
         actions[id].status = "pending_confirmation"
           => \A i \in actions[id].pickup_item_ids \cup actions[id].delivery_item_ids :
                itemStatus[i] = "scheduled"

\* C35: when a Complete request answers already_completed, the booking it
\* named is completed at that moment, and the items the request moved are in
\* the status a completion of that booking gives them.
C35_AlreadyCompletedMeansCompleted ==
  [][\A p \in Procs :
       (req[p].kind = "complete" /\ req[p].pc = "complete"
        /\ req'[p].pc = "done" /\ req'[p].resp = [code |-> 200, body |-> "already_completed"])
       => /\ actions'[req[p].arg].status = "completed"
          /\ \A i \in CompleteItemIds(req[p].action) :
               itemStatus'[i] = CompleteItemStatus(actions'[req[p].arg])]_vars

\* C36: for every booking the status changes to completed at most once and
\* the completion notification is triggered at most once.
C36_CompletedOnce ==
  \A id \in ActionIds : completions[id] <= 1 /\ notifications[id] <= 1

\* C37: when a Complete request changes a booking's status to completed, the
\* items the request moved (the set of the booking's service type as the
\* request loaded it) are exactly that set as the booking row holds it at the
\* moment of the status change.
C37_MovedExactlyStoredArrays ==
  [][\A p \in Procs :
       CompleteWins(p)
         => CompleteItemIds(req[p].action) = CompleteItemIds(actions[req[p].action.id])]_vars

\* C38: when a Complete request wins the conditional update, no item in the
\* pickup or delivery array of the completed booking has status scheduled.
C38_NoScheduledAfterComplete ==
  [][\A p \in Procs :
       CompleteWins(p)
         => LET a == actions'[req[p].action.id] IN
            \A i \in a.pickup_item_ids \cup a.delivery_item_ids :
              itemStatus'[i] # "scheduled"]_vars

\* C39: from the empty store and with the repository's handlers alone, the
\* status of every booking is pending_items, pending_confirmation, completed
\* or canceled: confirmed and in_progress are never written, and every change
\* of a status to completed is made on a booking in pending_confirmation.
C39_FourStatuses ==
  /\ [](\A id \in ActionIds :
          actions[id].status
            \in {"pending_items", "pending_confirmation", "completed", "canceled"})
  /\ [][\A id \in ActionIds :
          (completions'[id] # completions[id] \/ (actions'[id].status = "completed"
                                                  /\ actions[id].status # "completed"))
            => actions[id].status = "pending_confirmation"]_vars

\* A booking made by the scheduling webhook has been through SelectItems and
\* was completed.
C39_Witness ==
  /\ Len(actions) = 1 /\ actions[1].status = "completed" /\ completions[1] = 1
  /\ <<1, "items_updated">> \in events
  /\ <<1, "service_completed">> \in events
====
